---- MODULE Spec2Model ----
(***************************************************************************)
(* The MP2 expression of dyson (src/dyson/expressions/mp2.py): the class   *)
(* _MP2 built by _mp2_constructor(occ, vir), its cached integral tensor    *)
(* xija, the mode flag _non_dyson and the five operations a solver calls.  *)
(*                                                                         *)
(* Numbers are exact: a float is a rational <<n, d>> (d > 0, lowest terms) *)
(* where the code divides (the static part and what is built from it) and  *)
(* an integer where it only adds and multiplies integer-valued inputs.     *)
(* Arrays are index 1 based; an ndarray of rank 2 or 4 is a record         *)
(* [shape, data], data a function of the index tuples; a 1-d array is a    *)
(* sequence.  ravel/reshape are C order, as numpy's.                        *)
(***************************************************************************)
EXTENDS Integers, Sequences, FiniteSets, TLC

VARIABLES kind, mo_occ, mo_energy, mo_coeff, eri, _non_dyson, xija, call, snaps

vars == <<kind, mo_occ, mo_energy, mo_coeff, eri, _non_dyson, xija, call, snaps>>

(* ------------------------------ bounds -------------------------------- *)

\* Number of molecular orbitals (and of atomic orbitals).
NOrb == 3
\* The integral tensors are EriGen(0..MaxEriSeed).
MaxEriSeed == 1
\* build_se_moments is called with nmom in 0..MaxMom.
MaxMom == 2
\* Input vectors are the basis vectors and VecGen(0..MaxVecSeed).
MaxVecSeed == 1

(* --------------------------- exact numbers ---------------------------- *)

Abs(n) == IF n < 0 THEN -n ELSE n

RECURSIVE GCD(_, _)
GCD(a, b) == IF b = 0 THEN a ELSE GCD(b, a % b)

\* n/d in lowest terms with a positive denominator (d # 0).
Rat(n, d) ==
    LET g == GCD(Abs(n), Abs(d))
        s == IF d < 0 THEN -1 ELSE 1
    IN  <<(s * n) \div g, (s * d) \div g>>

R(n) == <<n, 1>>
\* (integers need no reduction)
RAdd(a, b) ==
    IF a[2] = 1 /\ b[2] = 1 THEN <<a[1] + b[1], 1>>
    ELSE Rat(a[1] * b[2] + b[1] * a[2], a[2] * b[2])
RSub(a, b) ==
    IF a[2] = 1 /\ b[2] = 1 THEN <<a[1] - b[1], 1>>
    ELSE Rat(a[1] * b[2] - b[1] * a[2], a[2] * b[2])
RMul(a, b) ==
    IF a[2] = 1 /\ b[2] = 1 THEN <<a[1] * b[1], 1>>
    ELSE Rat(a[1] * b[1], a[2] * b[2])
RScale(k, a) == IF a[2] = 1 THEN <<k * a[1], 1>> ELSE Rat(k * a[1], a[2])

RECURSIVE SumInt(_, _, _)
\* sum of f[k] for k in lo..hi, f integer valued
SumInt(f, lo, hi) == IF lo > hi THEN 0 ELSE f[lo] + SumInt(f, lo + 1, hi)

RECURSIVE SumRat(_, _, _)
SumRat(f, lo, hi) == IF lo > hi THEN R(0) ELSE RAdd(f[lo], SumRat(f, lo + 1, hi))

RECURSIVE Pow(_, _)
Pow(b, n) == IF n = 0 THEN 1 ELSE b * Pow(b, n - 1)

(* ------------------------- orbital selections ------------------------- *)

\* An array held in memory: its entries are computed once, when it is built
\* (a function constructor alone is evaluated entry by entry at each use).
Array(f) == IF f = f THEN f ELSE f

RECURSIVE Where(_, _)
\* numpy boolean-mask indexing: the indices k..NOrb where mask holds, in order
Where(mask, k) ==
    IF k > NOrb THEN <<>>
    ELSE (IF mask[k] THEN <<k>> ELSE <<>>) \o Where(mask, k + 1)

\* MP2_1h = _mp2_constructor(mo_occ > 0, mo_occ == 0); MP2_1p swaps them.
occ == IF kind = "1h" THEN [k \in 1..NOrb |-> mo_occ[k] > 0]
                      ELSE [k \in 1..NOrb |-> mo_occ[k] = 0]
vir == IF kind = "1h" THEN [k \in 1..NOrb |-> mo_occ[k] = 0]
                      ELSE [k \in 1..NOrb |-> mo_occ[k] > 0]

OccIdx == Where(occ, 1)
VirIdx == Where(vir, 1)
AllIdx == [k \in 1..NOrb |-> k]

\* the columns c = mo_coeff[:, occ] (non-Dyson) or mo_coeff (Dyson)
MainIdx(nd) == IF nd THEN OccIdx ELSE AllIdx

Energies(idx) == Array([k \in 1..Len(idx) |-> mo_energy[idx[k]]])

(* ------------------------------ tensors ------------------------------- *)

Idx2(n, m) == (1..n) \X (1..m)
Idx4(n1, n2, n3, n4) == (1..n1) \X (1..n2) \X (1..n3) \X (1..n4)

\* ao2mo.incore.general(eri, (c1, c2, c3, c4), compact=False).reshape(n1, n2, n3, n4):
\* out[x,i,j,a] = sum_pqrs eri[p,q,r,s] c1[p,x] c2[q,i] c3[r,j] c4[s,a],
\* the columns of each c given by an index list into mo_coeff, one index
\* transformed at a time.
ao2mo_general(i1, i2, i3, i4) ==
    LET N  == 1..NOrb
        t1 == Array([t \in (1..Len(i1)) \X N \X N \X N |->
                 SumInt([p \in N |-> mo_coeff[<<p, i1[t[1]]>>] * eri.data[<<p, t[2], t[3], t[4]>>]], 1, NOrb)])
        t2 == Array([t \in (1..Len(i1)) \X (1..Len(i2)) \X N \X N |->
                 SumInt([q \in N |-> mo_coeff[<<q, i2[t[2]]>>] * t1[<<t[1], q, t[3], t[4]>>]], 1, NOrb)])
        t3 == Array([t \in (1..Len(i1)) \X (1..Len(i2)) \X (1..Len(i3)) \X N |->
                 SumInt([r \in N |-> mo_coeff[<<r, i3[t[3]]>>] * t2[<<t[1], t[2], r, t[4]>>]], 1, NOrb)])
    IN  [shape |-> <<Len(i1), Len(i2), Len(i3), Len(i4)>>,
         data  |-> Array([t \in Idx4(Len(i1), Len(i2), Len(i3), Len(i4)) |->
                 SumInt([s \in N |-> mo_coeff[<<s, i4[t[4]]>>] * t3[<<t[1], t[2], t[3], s>>]], 1, NOrb)])]

\* ao2mo raises when mf._eri is not the tensor of the orbitals' basis.
IntegralsRaise == eri.nao # NOrb

_integrals_for_hamiltonian(nd) == ao2mo_general(MainIdx(nd), OccIdx, OccIdx, VirIdx)

(* ----------------------------- operations ----------------------------- *)

\* lib.direct_sum("i+j-a->ija", eo, eo, ev).ravel(): entry ((i-1)*no + (j-1))*nv + a
e_ija_ravel ==
    LET eo == Energies(OccIdx)
        ev == Energies(VirIdx)
        no == Len(OccIdx)
        nv == Len(VirIdx)
    IN  Array([k \in 1..(no * no * nv) |->
           eo[((k - 1) \div (no * nv)) + 1] + eo[(((k - 1) \div nv) % no) + 1]
             - ev[((k - 1) % nv) + 1]])

\* position of configuration (i, j, a) in the ravelled auxiliary space
Ravel(i, j, a) == ((i - 1) * Len(OccIdx) + (j - 1)) * Len(VirIdx) + a

\* the denominators e_xajb = e[x] - ev[a] + eo[j] - ev[b] of t2
e_xajb(e, ev, eo, x, a, j, b) == e[x] - ev[a] + eo[j] - ev[b]

\* h1 = einsum("xajb,yajb->xy", 2 * xajb - xajb.transpose(0, 3, 2, 1), t2) * 0.5
static_h1(nd) ==
    LET n    == Len(MainIdx(nd))
        no   == Len(OccIdx)
        nv   == Len(VirIdx)
        e    == Energies(MainIdx(nd))
        eo   == Energies(OccIdx)
        ev   == Energies(VirIdx)
        xajb == ao2mo_general(MainIdx(nd), VirIdx, OccIdx, VirIdx).data
        \* t2 = xajb / e_xajb
        t2   == Array([t \in Idx4(n, nv, no, nv) |->
                        Rat(xajb[t], e_xajb(e, ev, eo, t[1], t[2], t[3], t[4]))])
        \* xajb = 2 * xajb - xajb.transpose(0, 3, 2, 1)
        w    == Array([t \in Idx4(n, nv, no, nv) |-> 2 * xajb[t] - xajb[<<t[1], t[4], t[3], t[2]>>]])
        \* h1 = einsum("xajb,yajb->xy", xajb, t2) * 0.5
        h1   == Array([t \in Idx2(n, n) |->
                   RMul(Rat(1, 2),
                        SumRat([k \in 1..(nv * no * nv) |->
                                  LET a == ((k - 1) \div (no * nv)) + 1
                                      j == (((k - 1) \div nv) % no) + 1
                                      b == ((k - 1) % nv) + 1
                                  IN  RScale(w[<<t[1], a, j, b>>], t2[<<t[2], a, j, b>>])],
                               1, nv * no * nv))])
    IN  h1

\* the static part without its symmetrisation: h1 + np.diag(e)
get_static_part_unsymmetrised(nd) ==
    LET n  == Len(MainIdx(nd))
        e  == Energies(MainIdx(nd))
        h1 == static_h1(nd)
    IN  [shape |-> <<n, n>>,
         data  |-> Array([t \in Idx2(n, n) |->
                            IF t[1] = t[2] THEN RAdd(h1[t], R(e[t[1]])) ELSE h1[t]])]

get_static_part(nd) ==
    LET n  == Len(MainIdx(nd))
        e  == Energies(MainIdx(nd))
        h1 == static_h1(nd)
        \* h1 += h1.T
        h2 == [t \in Idx2(n, n) |-> RAdd(h1[t], h1[<<t[2], t[1]>>])]
    IN  \* h1 += np.diag(e)
        [shape |-> <<n, n>>,
         data  |-> Array([t \in Idx2(n, n) |->
                            IF t[1] = t[2] THEN RAdd(h2[t], R(e[t[1]])) ELSE h2[t]])]

\* What apply_hamiltonian adds to r, for a vector of rationals, a static
\* matrix (already resolved: the caller's, or get_static_part()) and
\* self.xija = x
apply_terms(vector, static, nd, x) ==
    LET n   == Len(MainIdx(nd))
        no  == Len(OccIdx)
        nv  == Len(VirIdx)
        e3  == e_ija_ravel
        \* r[p] += np.dot(static, vector[p])
        rp1 == [m \in 1..n |-> SumRat([y \in 1..n |-> RMul(static.data[<<m, y>>], vector[y])], 1, n)]
        \* r[p] += einsum("xija,ija->x", xija, vector[a].reshape(e_ija.shape))
        rp2 == [m \in 1..n |->
                  SumRat([k \in 1..(no * no * nv) |->
                            RScale(x.data[<<m, ((k - 1) \div (no * nv)) + 1,
                                            (((k - 1) \div nv) % no) + 1,
                                            ((k - 1) % nv) + 1>>], vector[n + k])],
                         1, no * no * nv)]
        \* r[a] += einsum("xija,x->ija", xija, vector[p]).ravel() * 2.0
        ra1 == [k \in 1..(no * no * nv) |->
                  RScale(2, SumRat([m \in 1..n |->
                            RScale(x.data[<<m, ((k - 1) \div (no * nv)) + 1,
                                            (((k - 1) \div nv) % no) + 1,
                                            ((k - 1) % nv) + 1>>], vector[m])], 1, n))]
        \* r[a] -= einsum("xjia,x->ija", xija, vector[p]).ravel()
        ra2 == [k \in 1..(no * no * nv) |->
                  SumRat([m \in 1..n |->
                            RScale(x.data[<<m, (((k - 1) \div nv) % no) + 1,
                                            ((k - 1) \div (no * nv)) + 1,
                                            ((k - 1) % nv) + 1>>], vector[m])], 1, n)]
    IN  \* r[a] += vector[a] * e_ija.ravel()
        [k \in 1..Len(vector) |->
           IF k <= n THEN RAdd(rp1[k], rp2[k])
           ELSE RAdd(RSub(ra1[k - n], ra2[k - n]), RScale(e3[k - n], vector[k]))]

\* r accumulated on an array of ones instead of np.zeros_like(vector)
apply_hamiltonian_ones_like(vector, static, nd, x) ==
    LET terms == apply_terms(vector, static, nd, x)
    IN  [k \in 1..Len(vector) |-> RAdd(R(1), terms[k])]

\* r = np.zeros_like(vector); r[p] += ...; r[a] += ...; return r
apply_hamiltonian(vector, static, nd, x) ==
    LET terms == apply_terms(vector, static, nd, x)
    IN  [k \in 1..Len(vector) |-> RAdd(R(0), terms[k])]

\* the auxiliary energies taken as e_i + e_j + e_a
diagonal_plus_ev(static) ==
    [k \in 1..static.shape[1] |-> static.data[<<k, k>>]]
      \o [k \in 1..Len(e_ija_ravel) |->
            R(e_ija_ravel[k] + 2 * Energies(VirIdx)[((k - 1) % Len(VirIdx)) + 1])]

\* np.concatenate([np.diag(static), e_ija.ravel()])
diagonal(static) ==
    [k \in 1..static.shape[1] |-> static.data[<<k, k>>]]
      \o [k \in 1..Len(e_ija_ravel) |-> R(e_ija_ravel[k])]

\* r[orb + 1] = 1.0: the orbital counted from 1
get_wavefunction_from_one(orb, nd) ==
    LET nocc == Len(OccIdx)
        nvir == Len(VirIdx)
        nija == nocc * nocc * nvir
        n    == IF nd THEN nocc ELSE nocc + nvir
    IN  [k \in 1..(n + nija) |-> IF k = orb + 2 THEN R(1) ELSE R(0)]

\* nija = nocc * nvir * nvir: the auxiliary space of the other sector
get_wavefunction_other_sector(orb, nd) ==
    LET nocc == Len(OccIdx)
        nvir == Len(VirIdx)
        nija == nocc * nvir * nvir
        n    == IF nd THEN nocc ELSE nocc + nvir
    IN  [k \in 1..(n + nija) |-> IF k = orb + 1 THEN R(1) ELSE R(0)]

\* r = np.zeros((n + nija,)); r[orb] = 1.0   (orb counted from 0)
get_wavefunction(orb, nd) ==
    LET nocc == Len(OccIdx)
        nvir == Len(VirIdx)
        nija == nocc * nocc * nvir
        n    == IF nd THEN nocc ELSE nocc + nvir
    IN  [k \in 1..(n + nija) |-> IF k = orb + 1 THEN R(1) ELSE R(0)]

\* the n-th moment tn: the scalar 0 the loop starts from, plus one einsum per
\* occupied index i (so it stays a scalar when eo.size = 0)
se_moment(n, x) ==
    LET eo == Energies(OccIdx)
        ev == Energies(VirIdx)
        no == Len(OccIdx)
        nv == Len(VirIdx)
        nm == x.shape[1]
    IN  IF no = 0 THEN [shape |-> <<>>, data |-> 0]
        ELSE [shape |-> <<nm, nm>>,
              data  |-> [t \in Idx2(nm, nm) |->
                 SumInt([i \in 1..no |->
                    \* vl = xija[:, i]; vr = 2.0 * xija[:, i] - xija[:, :, i]
                    \* eja = eo[i] + direct_sum("j-a->ja", eo, ev)
                    SumInt([k \in 1..(no * nv) |->
                       LET j == ((k - 1) \div nv) + 1
                           a == ((k - 1) % nv) + 1
                       IN  x.data[<<t[1], i, j, a>>]
                             * (2 * x.data[<<t[2], i, j, a>>] - x.data[<<t[2], j, i, a>>])
                             * Pow(eo[i] + eo[j] - ev[a], n)], 1, no * nv)], 1, no)]]

\* np.array(t), t the list of the moments of order 0..nmom-1
build_se_moments(nmom, x) == [n \in 1..nmom |-> se_moment(n - 1, x)]

(* ------------------------------- inputs ------------------------------- *)

\* compound index of the unordered pair {p, q}
PairIdx(p, q) == IF p >= q THEN (p * (p - 1)) \div 2 + q ELSE (q * (q - 1)) \div 2 + p

\* Two-electron integrals (pq|rs) over n atomic orbitals with the 8-fold
\* permutational symmetry of real orbitals: seed 0 is the all-ones tensor,
\* the others depend on the two pairs.
EriGen(seed, n) ==
    [nao  |-> n,
     data |-> [t \in Idx4(n, n, n, n) |->
                 IF seed = 0 THEN 1
                 ELSE LET a == PairIdx(t[1], t[2])
                          b == PairIdx(t[3], t[4])
                      IN  ((a * b * seed + (a + b) * (seed + 1) + seed) % 5) - 2]]

\* orbital coefficients (AO x MO): the identity (flavour 0), or a unit
\* upper-triangular mixing of the atomic orbitals
CoeffGen(flavour) ==
    [t \in Idx2(NOrb, NOrb) |->
       IF t[1] = t[2] THEN 1
       ELSE IF flavour # 0 /\ t[1] < t[2] THEN t[1] - t[2] + 1 ELSE 0]

EriChoices == {EriGen(seed, NOrb) : seed \in 0..MaxEriSeed}

CoeffChoices == {CoeffGen(flavour) : flavour \in 0..1}

\* The values of the orbital energies (the products of exact arithmetic on
\* their differences stay within 32 bits).
EnergyValues == (-2)..2

\* Orbital energies ascend strictly, as the mean field returns them.
EnergyChoices ==
    {e \in [1..NOrb -> EnergyValues] : \A k \in 1..(NOrb - 1) : e[k] < e[k + 1]}

\* Occupations: each orbital doubly occupied or empty (none or all occupied
\* included).
OccChoices == [1..NOrb -> {0, 2}]

\* No energy denominator of t2 vanishes, in either mode (x / 0 is inf or nan
\* in numpy, outside exact arithmetic).
ValidDenominators ==
    \A nd \in BOOLEAN : \A x \in 1..Len(MainIdx(nd)) : \A j \in 1..Len(OccIdx) :
        \A a, b \in 1..Len(VirIdx) :
            e_xajb(Energies(MainIdx(nd)), Energies(VirIdx), Energies(OccIdx), x, a, j, b) # 0

\* integer-valued state vectors of length len
VecGen(seed, len) == [k \in 1..len |-> R(((k * (seed + 2) + seed) % 3) - 1)]

\* a caller-supplied static matrix (n x n, not symmetric)
StaticGen(n) == [shape |-> <<n, n>>, data |-> [t \in Idx2(n, n) |-> R(t[1] + 2 * t[2] - 3)]]

NMain == Len(MainIdx(_non_dyson))
NAux == Len(OccIdx) * Len(OccIdx) * Len(VirIdx)

(* ------------------------------ actions ------------------------------- *)

\* the caller between two calls
Idle == [op |-> "idle", raised |-> FALSE]

\* _MP2.__init__(..., non_dyson): the orbital data, the flag, the cached tensor
Init ==
    /\ kind \in {"1h", "1p"}
    /\ mo_occ \in OccChoices
    /\ mo_energy \in EnergyChoices
    /\ ValidDenominators
    /\ mo_coeff \in CoeffChoices
    /\ eri \in EriChoices
    /\ _non_dyson \in BOOLEAN
    /\ xija = _integrals_for_hamiltonian(_non_dyson)
    /\ call = Idle
    /\ snaps = <<[flag |-> _non_dyson, xija |-> xija]>>

\* the (flag, xija) of the expression before and after the last assignment to
\* non_dyson (after construction: the constructed one alone)
Snap(flag, x) ==
    LET s == Append(snaps, [flag |-> flag, xija |-> x])
    IN  IF Len(s) > 2 THEN Tail(s) ELSE s

\* The body of non_dyson.setter, rebuild being its test "value != old".  The
\* call records the history as the assignment found it.
assign_non_dyson(value, rebuild) ==
    /\ call = Idle
    /\ _non_dyson' = value
    /\ IF rebuild
       THEN IF IntegralsRaise
            THEN /\ xija' = xija
                 /\ call' = [op |-> "set_non_dyson", raised |-> TRUE, value |-> value,
                             rebuilt |-> TRUE, before |-> snaps]
            ELSE /\ xija' = _integrals_for_hamiltonian(value)
                 /\ call' = [op |-> "set_non_dyson", raised |-> FALSE, value |-> value,
                             rebuilt |-> TRUE, before |-> snaps]
       ELSE /\ xija' = xija
            /\ call' = [op |-> "set_non_dyson", raised |-> FALSE, value |-> value,
                        rebuilt |-> FALSE, before |-> snaps]
    /\ snaps' = Snap(_non_dyson', xija')
    /\ UNCHANGED <<kind, mo_occ, mo_energy, mo_coeff, eri>>

\* the test made after the flag is stored: value != self._non_dyson, never true
set_non_dyson_test_after_store(value) == assign_non_dyson(value, FALSE)

\* the tensor rebuilt only when the non-Dyson mode is switched on
set_non_dyson_rebuild_on_enable(value) == assign_non_dyson(value, value /\ ~_non_dyson)

\* non_dyson.setter: old = self._non_dyson; self._non_dyson = value;
\* if value != old: self.xija = self._integrals_for_hamiltonian()
set_non_dyson(value) == assign_non_dyson(value, value # _non_dyson)

\* the default static=None of apply_hamiltonian and diagonal
None == [none |-> TRUE]
IsNone(static) == "none" \in DOMAIN static

\* what each query leaves alone: the expression and the history of its flag
Frame == UNCHANGED <<kind, mo_occ, mo_energy, mo_coeff, eri, _non_dyson, xija, snaps>>

\* expr.get_static_part()
call_get_static_part ==
    /\ call = Idle
    /\ call' = IF IntegralsRaise
               THEN [op |-> "get_static_part", raised |-> TRUE]
               ELSE [op |-> "get_static_part", raised |-> FALSE, ret |-> get_static_part(_non_dyson)]
    /\ Frame

\* expr.apply_hamiltonian(vector, static) with r the array returned: static is
\* None or the caller's matrix; vector_after and static_after are the caller's
\* arrays on return (r is a new array when in_place is false)
apply_call(vector, static, in_place) ==
    /\ call = Idle
    /\ call' = IF IsNone(static) /\ IntegralsRaise
               THEN [op |-> "apply_hamiltonian", raised |-> TRUE]
               ELSE LET st == IF IsNone(static) THEN get_static_part(_non_dyson) ELSE static
                        r  == apply_hamiltonian(vector, st, _non_dyson, xija)
                    IN  [op |-> "apply_hamiltonian", raised |-> FALSE,
                         vector |-> vector, static |-> static,
                         vector_after |-> IF in_place THEN r ELSE vector,
                         static_after |-> static,
                         ret |-> r]
    /\ Frame

\* r = vector: the result accumulated in the caller's array
call_apply_hamiltonian_in_place(vector, static) == apply_call(vector, static, TRUE)

call_apply_hamiltonian(vector, static) == apply_call(vector, static, FALSE)

\* expr.diagonal(static)
call_diagonal(static) ==
    /\ call = Idle
    /\ call' = IF IsNone(static) /\ IntegralsRaise
               THEN [op |-> "diagonal", raised |-> TRUE]
               ELSE LET st == IF IsNone(static) THEN get_static_part(_non_dyson) ELSE static
                    IN  [op |-> "diagonal", raised |-> FALSE, static |-> static,
                         static_after |-> static, ret |-> diagonal(st)]
    /\ Frame

\* expr.get_wavefunction(orb)
call_get_wavefunction(orb) ==
    /\ call = Idle
    /\ call' = [op |-> "get_wavefunction", raised |-> FALSE, orb |-> orb,
                ret |-> get_wavefunction(orb, _non_dyson)]
    /\ Frame

\* expr.build_se_moments(nmom)
call_build_se_moments(nmom) ==
    /\ call = Idle
    /\ call' = [op |-> "build_se_moments", raised |-> FALSE, nmom |-> nmom,
                ret |-> build_se_moments(nmom, xija)]
    /\ Frame

\* The provider that owns mf._eri replaces it by the tensor of another basis.
provider_replaces_eri ==
    /\ call = Idle
    /\ eri.nao = NOrb
    /\ eri' = EriGen(0, NOrb - 1)
    /\ call' = [op |-> "provider", raised |-> FALSE]
    /\ UNCHANGED <<kind, mo_occ, mo_energy, mo_coeff, _non_dyson, xija, snaps>>

\* the caller takes the result of a call that returned; a raised error is fatal
caller_returns ==
    /\ call # Idle
    /\ ~call.raised
    /\ call' = Idle
    /\ Frame

StaticArgs == {None, StaticGen(NMain)}

Next ==
    \/ \E value \in BOOLEAN : set_non_dyson(value)
    \/ call_get_static_part
    \/ \E seed \in 0..MaxVecSeed : \E static \in StaticArgs :
          call_apply_hamiltonian(VecGen(seed, NMain + NAux), static)
    \/ \E static \in StaticArgs : call_diagonal(static)
    \/ \E orb \in 0..(NMain - 1) : call_get_wavefunction(orb)
    \/ \E nmom \in 0..MaxMom : call_build_se_moments(nmom)
    \/ caller_returns

Spec == Init /\ [][Next]_vars

\* the same program with a provider that may replace its integrals
SpecFault == Init /\ [][Next \/ provider_replaces_eri]_vars

(* ------------------------------- claims ------------------------------- *)

\* the k-th standard basis vector of length len
Basis(k, len) == [m \in 1..len |-> IF m = k THEN R(1) ELSE R(0)]

\* the static matrix a call used: the caller's, or get_static_part()
Resolved(static) == IF IsNone(static) THEN get_static_part(_non_dyson) ELSE static

\* column c of the dense operator: apply_hamiltonian(e_c)
DenseColumn(c, static) == apply_hamiltonian(Basis(c, NMain + NAux), static, _non_dyson, xija)

Returned(op) == call.op = op /\ ~call.raised

\* C1: apply_hamiltonian(v) is H.v, H the dense matrix whose columns are
\* apply_hamiltonian(e_k); and apply_hamiltonian is linear:
\* apply_hamiltonian(2u - v) = 2 apply_hamiltonian(u) - apply_hamiltonian(v).
C1_ApplyIsDenseMatVec ==
    Returned("apply_hamiltonian") =>
        LET len == NMain + NAux
            st  == Resolved(call.static)
            H   == Array([c \in 1..len |-> DenseColumn(c, st)])
            v   == VecGen(MaxVecSeed + 1, len)
            Av  == apply_hamiltonian(v, st, _non_dyson, xija)
            mix == [k \in 1..len |-> RSub(RScale(2, call.vector[k]), v[k])]
        IN  /\ Len(call.vector) = len
            /\ call.ret = [r \in 1..len |->
                             SumRat([c \in 1..len |-> RMul(H[c][r], call.vector[c])], 1, len)]
            /\ apply_hamiltonian(mix, st, _non_dyson, xija)
                 = [k \in 1..len |-> RSub(RScale(2, call.ret[k]), Av[k])]

C1_Witness ==
    /\ Returned("apply_hamiltonian")
    /\ IsNone(call.static)
    /\ _non_dyson
    /\ NMain > 1
    /\ NAux > 1
    /\ \E k \in 1..NMain : call.ret[k] # R(0)
    /\ \E k \in (NMain + 1)..(NMain + NAux) : call.ret[k] # R(0)

\* C2: diagonal()[k] = apply_hamiltonian(e_k)[k] for every k: the first n_main
\* entries are the diagonal of the static block, the others the auxiliary
\* energies e_i + e_j - e_a at the position of (i, j, a) in ravel order.
C2_DiagonalIsDenseDiagonal ==
    Returned("diagonal") =>
        LET st == Resolved(call.static)
            eo == Energies(OccIdx)
            ev == Energies(VirIdx)
        IN  /\ Len(call.ret) = NMain + NAux
            /\ \A k \in 1..(NMain + NAux) : call.ret[k] = DenseColumn(k, st)[k]
            /\ \A k \in 1..NMain : call.ret[k] = st.data[<<k, k>>]
            /\ \A i, j \in 1..Len(OccIdx) : \A a \in 1..Len(VirIdx) :
                  call.ret[NMain + Ravel(i, j, a)] = R(eo[i] + eo[j] - ev[a])

C2_Witness ==
    /\ Returned("diagonal")
    /\ IsNone(call.static)
    /\ NMain > 1
    /\ Len(OccIdx) > 1
    /\ \E k, m \in (NMain + 1)..(NMain + NAux) : call.ret[k] # call.ret[m]

\* C3: get_static_part() is n_main x n_main and exactly symmetric.
C3_StaticPartSymmetric ==
    Returned("get_static_part") =>
        /\ call.ret.shape = <<NMain, NMain>>
        /\ DOMAIN call.ret.data = Idx2(NMain, NMain)
        /\ \A x, y \in 1..NMain : call.ret.data[<<x, y>>] = call.ret.data[<<y, x>>]

C3_Witness ==
    /\ Returned("get_static_part")
    /\ ~_non_dyson
    /\ \E x, y \in 1..NMain : x # y /\ call.ret.data[<<x, y>>] # R(0)
    /\ \E x, y \in 1..NMain :
          x # y /\ get_static_part_unsymmetrised(_non_dyson).data[<<x, y>>]
                     # get_static_part_unsymmetrised(_non_dyson).data[<<y, x>>]

\* an assignment that found the history <<s1, s2>> and assigns s1's flag back
\* after an assignment that had changed it
RoundTrip ==
    /\ Returned("set_non_dyson")
    /\ Len(call.before) = 2
    /\ call.before[1].flag # call.before[2].flag
    /\ call.value = call.before[1].flag

\* C4: assigning non_dyson the opposite value and then the original one again
\* leaves xija equal, in shape and entries, to the tensor cached before.
C4_ToggleRoundTrip == RoundTrip => xija = call.before[1].xija

C4_Witness ==
    /\ RoundTrip
    /\ call.before[2].xija # xija
    /\ Len(OccIdx) > 0
    /\ Len(VirIdx) > 0

\* C5: in every state xija is the projection _integrals_for_hamiltonian gives
\* for the current mode, its leading dimension the number of main orbitals of
\* that mode: all orbitals (Dyson) or those of the occ predicate (non-Dyson).
C5_CacheMatchesMode ==
    /\ xija = _integrals_for_hamiltonian(_non_dyson)
    /\ xija.shape[1] = IF _non_dyson THEN Len(OccIdx) ELSE NOrb
    /\ xija.shape = <<NMain, Len(OccIdx), Len(OccIdx), Len(VirIdx)>>

C5_Witness ==
    /\ Returned("set_non_dyson")
    /\ call.rebuilt
    /\ Len(call.before) = 2
    /\ call.before[1].flag = call.before[2].flag
    /\ xija.shape[1] # call.before[2].xija.shape[1]
    /\ NAux > 0

\* C6: get_wavefunction(orb), 0 <= orb < n_main, has length
\* n_main + n_occ^2 n_vir, the entry 1 at orb and 0 elsewhere.
C6_WavefunctionOneHot ==
    (Returned("get_wavefunction") /\ call.orb >= 0 /\ call.orb < NMain) =>
        /\ Len(call.ret) = NMain + Len(OccIdx) * Len(OccIdx) * Len(VirIdx)
        /\ \A k \in 1..Len(call.ret) :
              call.ret[k] = IF k = call.orb + 1 THEN R(1) ELSE R(0)

C6_Witness ==
    /\ Returned("get_wavefunction")
    /\ call.orb > 0
    /\ NAux > 0
    /\ _non_dyson

\* C7: diagonal(), get_wavefunction(k) and apply_hamiltonian's result all have
\* the length xija.shape[0] + n_occ^2 n_vir = n_main + n_aux, n_main being
\* n_occ in non-Dyson and n_occ + n_vir in Dyson mode.
C7_OneDimension ==
    LET nocc == Len(OccIdx)
        nvir == Len(VirIdx)
        dim  == xija.shape[1] + nocc * nocc * nvir
    IN  /\ dim = (IF _non_dyson THEN nocc ELSE nocc + nvir) + nocc * nocc * nvir
        /\ dim = NMain + NAux
        /\ Returned("diagonal") => Len(call.ret) = dim
        /\ Returned("get_wavefunction") => Len(call.ret) = dim
        /\ Returned("apply_hamiltonian") => Len(call.ret) = dim /\ Len(call.vector) = dim

C7_Witness ==
    /\ Returned("get_wavefunction")
    /\ Len(snaps) = 2
    /\ snaps[1].flag # snaps[2].flag
    /\ Len(OccIdx) # Len(VirIdx)
    /\ NAux > 0

QueryOps == {"get_static_part", "apply_hamiltonian", "diagonal", "get_wavefunction",
             "build_se_moments"}

\* C8: no query changes the flag, the cached tensor or the orbital data;
\* apply_hamiltonian leaves the caller's vector and static matrix as they
\* were; and assigning non_dyson its current value keeps xija without a
\* rebuild.
C8_OnlySetterMutates ==
    [][/\ call'.op \in QueryOps =>
            UNCHANGED <<_non_dyson, xija, kind, mo_occ, mo_energy, mo_coeff, eri>>
       /\ (call'.op = "apply_hamiltonian" /\ ~call'.raised) =>
            (call'.vector_after = call'.vector /\ call'.static_after = call'.static)
       /\ (call'.op = "set_non_dyson" /\ call'.value = _non_dyson) =>
            (xija' = xija /\ _non_dyson' = _non_dyson /\ ~call'.rebuilt)]_vars

C8_Witness ==
    /\ Returned("apply_hamiltonian")
    /\ ~IsNone(call.static)
    /\ call.ret # call.vector
    /\ Len(snaps) = 2
    /\ NAux > 0

\* the moments as the claim gives them: n matrices n_main x n_main, the k-th
\* L.E^k.R with L, R, E the blocks of the dense operator, entry [x][y] the sum
\* over (i, j, a) of xija[x,i,j,a] (2 xija[y,i,j,a] - xija[y,j,i,a]) (e_i+e_j-e_a)^k
MomentsAsClaimed ==
    LET n   == NMain
        st  == StaticGen(n)
        eo  == Energies(OccIdx)
        ev  == Energies(VirIdx)
        no  == Len(OccIdx)
        nv  == Len(VirIdx)
        col == Array([c \in 1..(n + NAux) |-> DenseColumn(c, st)])
    IN  /\ Len(call.ret) = call.nmom
        /\ \A k \in 1..call.nmom :
              /\ call.ret[k].shape = <<n, n>>
              /\ \A x, y \in 1..n :
                    /\ call.ret[k].data[<<x, y>>]
                         = SumInt([c \in 1..NAux |->
                                     col[n + c][x][1] * Pow(col[n + c][n + c][1], k - 1)
                                       * col[y][n + c][1]], 1, NAux)
                    /\ call.ret[k].data[<<x, y>>]
                         = SumInt([c \in 1..NAux |->
                              LET i == ((c - 1) \div (no * nv)) + 1
                                  j == (((c - 1) \div nv) % no) + 1
                                  a == ((c - 1) % nv) + 1
                              IN  xija.data[<<x, i, j, a>>]
                                    * (2 * xija.data[<<y, i, j, a>>] - xija.data[<<y, j, i, a>>])
                                    * Pow(eo[i] + eo[j] - ev[a], k - 1)], 1, NAux)

\* C9: build_se_moments(N) returns N matrices, each n_main x n_main, the k-th
\* equal to L.E^k.R of the dense operator.
C9_MomentsAreDenseBlocks == Returned("build_se_moments") => MomentsAsClaimed

\* the same whenever some orbital satisfies the occ predicate
C9_MomentsWhenOccupied ==
    (Returned("build_se_moments") /\ Len(OccIdx) > 0) => MomentsAsClaimed

\* C10: when the rebuild of an assignment to non_dyson raises, the expression
\* is as it was before the assignment: the flag and xija of the same mode.
C10_FailedAssignmentKeepsState ==
    (call.op = "set_non_dyson" /\ call.raised) =>
        LET was == call.before[Len(call.before)]
        IN  /\ _non_dyson = was.flag
            /\ xija = was.xija
            /\ xija.shape[1] = NMain
====
